---- MODULE Spec2Model ----
(***************************************************************************)
(* Startup orchestration and configuration resolution of the infracost     *)
(* CLI: cmd/infracost/main.go and internal/config/config.go.               *)
(*                                                                         *)
(* The main goroutine resolves the Config (DefaultConfig, LoadFromEnv,     *)
(* loadGlobalFlags, LoadFromConfigFile), runs the selected command and     *)
(* unwinds through the deferred teardown of main; the update checker       *)
(* goroutine hands its result over an unbuffered channel.                  *)
(***************************************************************************)
EXTENDS Integers, Sequences, FiniteSets, TLC

(* ----------------------------- bounds --------------------------------- *)

\* Largest number of projects a config file holds.
MaxProjects == 2

\* Deepest chain of wrapped errors a command returns.
MaxWrap == 2

\* Largest number of variables set in the process environment.
MaxEnvVars == 1

(* ------------------------ strings and values -------------------------- *)

\* A variable that is not in the process environment (os.LookupEnv: !ok).
Unset == "<unset>"

\* config.go:61-62, the compiled-in endpoint.
DefaultEndpoint == "https://pricing.api.infracost.io"
EnvEndpoint == "https://env.example"
FlagEndpoint == "https://flag.example"

\* The envconfig keys of Config (config.go:31-37) and Project (config.go:17-18).
ConfigVars == {"INFRACOST_LOG_LEVEL", "INFRACOST_NO_COLOR",
               "INFRACOST_PRICING_API_ENDPOINT",
               "INFRACOST_DEFAULT_PRICING_API_ENDPOINT"}
ProjectVars == {"INFRACOST_TERRAFORM_BINARY", "INFRACOST_TERRAFORM_WORKSPACE"}
EnvVars == ConfigVars \cup ProjectVars

\* The values the model gives each variable when it is set.
EnvValues(v) ==
  CASE v = "INFRACOST_LOG_LEVEL" -> {"debug", "bogus"}
    [] v = "INFRACOST_NO_COLOR" -> {"true", "bogus"}
    [] v = "INFRACOST_PRICING_API_ENDPOINT" -> {EnvEndpoint, DefaultEndpoint}
    [] v = "INFRACOST_DEFAULT_PRICING_API_ENDPOINT" -> {EnvEndpoint}
    [] v = "INFRACOST_TERRAFORM_BINARY" -> {"tf-env"}
    [] v = "INFRACOST_TERRAFORM_WORKSPACE" -> {"ws-env"}

\* The process environments: every variable unset or set to one of its values,
\* at most MaxEnvVars of them set.
Environments ==
  {e \in [EnvVars -> {Unset, "debug", "bogus", "true", EnvEndpoint, DefaultEndpoint,
                       "tf-env", "ws-env"}] :
     /\ \A v \in EnvVars : e[v] = Unset \/ e[v] \in EnvValues(v)
     /\ Cardinality({v \in EnvVars : e[v] # Unset}) <= MaxEnvVars}

\* An error is a chain of nodes, outermost first (errors.Wrap); NoErr is nil.
NoErr == <<>>
ColorCodes == {"ESC[31m", "ESC[0m"}
ErrNode(kind, text, label) == [kind |-> kind, text |-> text, label |-> label]
PlainErr(text) == <<ErrNode("plain", text, <<>>)>>

\* strconv.ParseBool, as envconfig applies it to a bool field.
IsBool(s) == s \in {"1", "t", "T", "TRUE", "true", "True", "0", "f", "F", "FALSE", "false", "False"}
ParseBool(s) == s \in {"1", "t", "T", "TRUE", "true", "True"}

\* logrus.ParseLevel: the level names it knows, "warning" an alias of "warn".
LevelNames == {"panic", "fatal", "error", "warn", "warning", "info", "debug", "trace"}
ParseLevel(s) == IF s = "warning" THEN "warn" ELSE s

(* ------------------------- config resolution -------------------------- *)

\* Project{} (config.go:14-23): the fields the config file and the
\* environment set.
EmptyProject == [Path |-> "", TerraformBinary |-> "", TerraformWorkspace |-> ""]

\* DefaultConfig (config.go:54-70) with NewEnvironment's zero values.
DefaultConfig ==
  [LogLevel |-> "",
   NoColor |-> FALSE,
   PricingAPIEndpoint |-> DefaultEndpoint,
   DefaultPricingAPIEndpoint |-> DefaultEndpoint,
   Projects |-> <<EmptyProject>>,
   HasConfigFile |-> FALSE,
   IsDefaultPricingAPIEndpoint |-> FALSE,
   Flags |-> {},
   InstallID |-> "",
   State |-> ""]

\* envconfig.Process on Config: the tagged fields in declaration order, each
\* assigned when its variable is set; the first value that does not parse
\* ends the pass with the earlier fields already written.
ProcessConfig(c, e) ==
  LET c1 == IF e["INFRACOST_LOG_LEVEL"] # Unset
            THEN [c EXCEPT !.LogLevel = e["INFRACOST_LOG_LEVEL"]] ELSE c
      badBool == e["INFRACOST_NO_COLOR"] # Unset /\ ~IsBool(e["INFRACOST_NO_COLOR"])
      c2 == IF e["INFRACOST_NO_COLOR"] # Unset /\ ~badBool
            THEN [c1 EXCEPT !.NoColor = ParseBool(e["INFRACOST_NO_COLOR"])] ELSE c1
      c3 == IF e["INFRACOST_PRICING_API_ENDPOINT"] # Unset
            THEN [c2 EXCEPT !.PricingAPIEndpoint = e["INFRACOST_PRICING_API_ENDPOINT"]] ELSE c2
      c4 == IF e["INFRACOST_DEFAULT_PRICING_API_ENDPOINT"] # Unset
            THEN [c3 EXCEPT !.DefaultPricingAPIEndpoint = e["INFRACOST_DEFAULT_PRICING_API_ENDPOINT"]]
            ELSE c3
  IN IF badBool
     THEN [cfg |-> c1, err |-> PlainErr(<<"envconfig.Process:", "INFRACOST_NO_COLOR">>)]
     ELSE [cfg |-> c4, err |-> NoErr]

\* envconfig.Process on one Project: its two tagged string fields.
ProcessProject(p, e) ==
  LET p1 == IF e["INFRACOST_TERRAFORM_BINARY"] # Unset
            THEN [p EXCEPT !.TerraformBinary = e["INFRACOST_TERRAFORM_BINARY"]] ELSE p
  IN IF e["INFRACOST_TERRAFORM_WORKSPACE"] # Unset
     THEN [p1 EXCEPT !.TerraformWorkspace = e["INFRACOST_TERRAFORM_WORKSPACE"]] ELSE p1

\* Mutant: only the first project is bound to the environment.
loadEnvVarsFirstProjectOnly(c, e) ==
  LET r == ProcessConfig(c, e)
  IN IF r.err # NoErr
     THEN r
     ELSE [cfg |-> [r.cfg EXCEPT !.Projects =
                      [i \in 1..Len(r.cfg.Projects) |->
                         IF i = 1 THEN ProcessProject(r.cfg.Projects[i], e)
                         ELSE r.cfg.Projects[i]]],
           err |-> NoErr]

\* Config.loadEnvVars (config.go:115-129).
loadEnvVars(c, e) ==
  LET r == ProcessConfig(c, e)
  IN IF r.err # NoErr
     THEN r
     ELSE [cfg |-> [r.cfg EXCEPT !.Projects =
                      [i \in 1..Len(r.cfg.Projects) |-> ProcessProject(r.cfg.Projects[i], e)]],
           err |-> NoErr]

\* The process-wide logrus logger before anything configures it.
InitLogger == [out |-> "stderr", level |-> "info"]

\* Mutant: a known level sets the level only and leaves the sink as it was.
ConfigureLoggerKeepsSink(level, lg) ==
  IF level = ""
  THEN [logger |-> [lg EXCEPT !.out = "discard"], err |-> NoErr]
  ELSE IF level \notin LevelNames
  THEN [logger |-> [lg EXCEPT !.out = "stderr"],
        err |-> PlainErr(<<"not a valid logrus Level:", level>>)]
  ELSE [logger |-> [lg EXCEPT !.level = ParseLevel(level)], err |-> NoErr]

\* Config.ConfigureLogger (config.go:131-161) on the logger lg.
ConfigureLogger(level, lg) ==
  IF level = ""
  THEN [logger |-> [lg EXCEPT !.out = "discard"], err |-> NoErr]
  ELSE IF level \notin LevelNames
  THEN [logger |-> [lg EXCEPT !.out = "stderr"],
        err |-> PlainErr(<<"not a valid logrus Level:", level>>)]
  ELSE [logger |-> [out |-> "stderr", level |-> ParseLevel(level)], err |-> NoErr]

(* ---------------------- persisted state, credentials ------------------ *)

\* The persisted state file: absent, unparsable, or holding an install id.
Absent == "<absent>"
Corrupt == "<corrupt>"

\* The identifier a load generates when the file is absent (a fresh UUID:
\* the n-th load of the process generates the n-th identifier).
NewInstallID(n) == IF n = 1 THEN "uuid-1" ELSE IF n = 2 THEN "uuid-2" ELSE "uuid-3"

\* loadState: reads the file, creating it with a new identifier when absent;
\* an unparsable file is an error (fatal to the caller).
loadState(file, n) ==
  IF file = Corrupt THEN [id |-> "", file |-> file, err |-> TRUE]
  ELSE IF file = Absent THEN [id |-> NewInstallID(n), file |-> NewInstallID(n), err |-> FALSE]
  ELSE [id |-> file, file |-> file, err |-> FALSE]

\* loadCredentials: a missing file is no error, an unparsable one is.
loadCredentials(file) == file = Corrupt

\* No call of ConfigureLogger yet.
NoLevel == "<none>"

\* The part of the process Config resolution reads and writes; lastLevel is
\* the level string of the latest ConfigureLogger call.
World(c, lg, sf, sl, cl, ll) ==
  [cfg |-> c, logger |-> lg, stateFile |-> sf, stateLoads |-> sl, credsLoads |-> cl,
   lastLevel |-> ll]

\* Mutant: the loaded State is not copied into Environment.InstallID.
LoadFromEnvNoInstallID(w, e, cf) ==
  LET r1 == loadEnvVars(w.cfg, e)
      r2 == ConfigureLogger(r1.cfg.LogLevel, w.logger)
      st == loadState(w.stateFile, w.stateLoads + 1)
      w1 == [w EXCEPT !.cfg = r1.cfg]
      w2 == [w1 EXCEPT !.logger = r2.logger, !.lastLevel = r1.cfg.LogLevel]
      w3 == [w2 EXCEPT !.stateLoads = @ + 1, !.stateFile = st.file]
      w4 == [w3 EXCEPT !.cfg.State = st.id]
      w5 == [w4 EXCEPT !.credsLoads = @ + 1]
  IN IF r1.err # NoErr THEN [w |-> w1, err |-> r1.err, fatal |-> FALSE]
     ELSE IF r2.err # NoErr THEN [w |-> w2, err |-> r2.err, fatal |-> FALSE]
     ELSE IF st.err THEN [w |-> w3, err |-> NoErr, fatal |-> TRUE]
     ELSE IF loadCredentials(cf) THEN [w |-> w5, err |-> NoErr, fatal |-> TRUE]
     ELSE [w |-> w5, err |-> NoErr, fatal |-> FALSE]

\* Config.LoadFromEnv (config.go:90-113) in process environment e with
\* credentials file cf. fatal is logrus.Fatal: the process exits at once.
LoadFromEnv(w, e, cf) ==
  LET r1 == loadEnvVars(w.cfg, e)
      r2 == ConfigureLogger(r1.cfg.LogLevel, w.logger)
      st == loadState(w.stateFile, w.stateLoads + 1)
      w1 == [w EXCEPT !.cfg = r1.cfg]
      w2 == [w1 EXCEPT !.logger = r2.logger, !.lastLevel = r1.cfg.LogLevel]
      w3 == [w2 EXCEPT !.stateLoads = @ + 1, !.stateFile = st.file]
      w4 == [w3 EXCEPT !.cfg.State = st.id, !.cfg.InstallID = st.id]
      w5 == [w4 EXCEPT !.credsLoads = @ + 1]
  IN IF r1.err # NoErr THEN [w |-> w1, err |-> r1.err, fatal |-> FALSE]
     ELSE IF r2.err # NoErr THEN [w |-> w2, err |-> r2.err, fatal |-> FALSE]
     ELSE IF st.err THEN [w |-> w3, err |-> NoErr, fatal |-> TRUE]
     ELSE IF loadCredentials(cf) THEN [w |-> w5, err |-> NoErr, fatal |-> TRUE]
     ELSE [w |-> w5, err |-> NoErr, fatal |-> FALSE]

\* The config files a command is pointed at: a missing one, a malformed one,
\* and well-formed ones of 1..MaxProjects projects, each project naming its
\* directory and its terraform binary.
DirNames == <<"dir-1", "dir-2", "dir-3", "dir-4">>
FileProject(i) == [Path |-> DirNames[i], TerraformBinary |-> "tf-file", TerraformWorkspace |-> ""]
ConfigFile(status, n) == [status |-> status, projects |-> [i \in 1..n |-> FileProject(i)]]
ConfigFiles ==
  {ConfigFile("missing", 0), ConfigFile("malformed", 0)}
    \cup {ConfigFile("ok", n) : n \in 1..MaxProjects}

\* No config file was given to the command.
NoConfigFile == ConfigFile("none", 0)

\* LoadConfigFile: the parsed file, or an error when it is missing or malformed.
LoadConfigFile(f) ==
  IF f.status = "ok" THEN NoErr ELSE PlainErr(<<"config file:", f.status>>)

\* Mutant: the file's projects are appended to the projects already there.
LoadFromConfigFileKeepsPlaceholder(w, f, e, cf) ==
  IF LoadConfigFile(f) # NoErr
  THEN [w |-> w, err |-> LoadConfigFile(f), fatal |-> FALSE]
  ELSE LoadFromEnv([w EXCEPT !.cfg.HasConfigFile = TRUE,
                             !.cfg.Projects = @ \o f.projects], e, cf)

\* Config.LoadFromConfigFile (config.go:72-88).
LoadFromConfigFile(w, f, e, cf) ==
  IF LoadConfigFile(f) # NoErr
  THEN [w |-> w, err |-> LoadConfigFile(f), fatal |-> FALSE]
  ELSE LoadFromEnv([w EXCEPT !.cfg.HasConfigFile = TRUE, !.cfg.Projects = f.projects], e, cf)

(* ------------------------------ flags --------------------------------- *)

\* The flags loadGlobalFlags reads and the parsed command lines: changed is
\* the set of flags the user set, an unset flag holds its default; --no-color
\* is given as a switch and --log-level may be given the empty string.
FlagNames == {"no-color", "log-level", "pricing-api-endpoint"}
NoFlags == [changed |-> {}, noColor |-> FALSE, logLevel |-> "", pricing |-> ""]
CommandLines ==
  {fl \in [changed : SUBSET FlagNames, noColor : BOOLEAN,
           logLevel : {"", "info", "bogus"}, pricing : {"", FlagEndpoint}] :
     /\ ("no-color" \in fl.changed) <=> fl.noColor
     /\ "log-level" \notin fl.changed => fl.logLevel = ""
     /\ ("pricing-api-endpoint" \in fl.changed) <=> (fl.pricing # "")}

\* Mutant: every flag's value is assigned, whether the user set it or not.
loadGlobalFlagsUnconditional(c, lg, fl) ==
  LET c2 == [c EXCEPT !.NoColor = fl.noColor, !.LogLevel = fl.logLevel]
      r == ConfigureLogger(c2.LogLevel, lg)
      c3 == [c2 EXCEPT !.PricingAPIEndpoint = fl.pricing]
      c4 == [c3 EXCEPT !.IsDefaultPricingAPIEndpoint =
                         (c3.PricingAPIEndpoint = c3.DefaultPricingAPIEndpoint),
                       !.Flags = fl.changed]
  IN IF r.err # NoErr
     THEN [cfg |-> c2, logger |-> r.logger, color |-> c2.NoColor, err |-> r.err]
     ELSE [cfg |-> c4, logger |-> r.logger, color |-> c2.NoColor, err |-> NoErr]

\* loadGlobalFlags (main.go:199-228): cfg and the logger after it, color for
\* the global color.NoColor, and the error it returns.
loadGlobalFlags(c, lg, fl) ==
  LET c1 == IF "no-color" \in fl.changed THEN [c EXCEPT !.NoColor = fl.noColor] ELSE c
      c2 == IF "log-level" \in fl.changed THEN [c1 EXCEPT !.LogLevel = fl.logLevel] ELSE c1
      r == IF "log-level" \in fl.changed
           THEN ConfigureLogger(c2.LogLevel, lg)
           ELSE [logger |-> lg, err |-> NoErr]
      c3 == IF "pricing-api-endpoint" \in fl.changed
            THEN [c2 EXCEPT !.PricingAPIEndpoint = fl.pricing] ELSE c2
      c4 == [c3 EXCEPT !.IsDefaultPricingAPIEndpoint =
                         (c3.PricingAPIEndpoint = c3.DefaultPricingAPIEndpoint),
                       !.Flags = fl.changed]
  IN IF r.err # NoErr
     THEN [cfg |-> c2, logger |-> r.logger, color |-> c1.NoColor, err |-> r.err]
     ELSE [cfg |-> c4, logger |-> r.logger, color |-> c1.NoColor, err |-> NoErr]

(* --------------------------- error reporting -------------------------- *)

\* ui.StripColor: the text without its formatting codes.
StripColor(s) == SelectSeq(s, LAMBDA t : t \notin ColorCodes)

\* err.Error() of a chain: errors.Wrap prefixes the message of what it wraps.
RECURSIVE ErrorText(_)
ErrorText(err) ==
  IF Len(err) = 0 THEN <<>>
  ELSE IF Len(err) = 1 THEN err[1].text
  ELSE err[1].text \o <<": ">> \o ErrorText(Tail(err))

\* errors.As(err, &eventsError): the first *events.Error of the chain.
RECURSIVE AsEventsError(_)
AsEventsError(err) ==
  IF Len(err) = 0 THEN <<>>
  ELSE IF err[1].kind = "events" THEN <<err[1]>>
  ELSE AsEventsError(Tail(err))

\* Mutant: the label of an event error is not looked for.
AppErrMsgFullText(err) == StripColor(ErrorText(err))

\* handleAppErr (main.go:164-168): the message of the event report.
AppErrMsg(err) ==
  IF AsEventsError(err) # <<>>
  THEN StripColor(AsEventsError(err)[1].label)
  ELSE StripColor(ErrorText(err))

\* debug.Stack() (main.go:178).
Stack == "goroutine 1 [running]"

\* Mutant: the report holds the panic value without the stack trace.
UnexpectedErrMsgNoStack(v) == <<v>>

\* The message handleUnexpectedErr reports (main.go:182).
UnexpectedErrMsg(v) == <<v, "\n", Stack>>

\* The errors a command returns: a plain error with a coloured message or a
\* labeled event error, bare or wrapped (errors.Wrap) up to MaxWrap - 1 times.
ErrNodes ==
  {ErrNode("plain", <<"ESC[31m", "boom", "ESC[0m">>, <<>>),
   ErrNode("events", <<"No INFRACOST_API_KEY">>, <<"ESC[31m", "missing-api-key">>)}
WrapNode == ErrNode("plain", <<"ESC[31m", "failed">>, <<>>)
CommandErrors ==
  {[i \in 1..n |-> IF i < n THEN WrapNode ELSE core] : n \in 1..MaxWrap, core \in ErrNodes}

\* The values a command panics with; NoPanic is recover() returning nil.
NoPanic == ""
PanicValues == {"runtime error: index out of range"}

\* The results of update.CheckForUpdate: an Info (its LatestVersion), nil,
\* or nil with an error.
NoInfo == ""
CheckResults ==
  {[info |-> "v0.9.0", failed |-> FALSE],
   [info |-> NoInfo, failed |-> FALSE],
   [info |-> NoInfo, failed |-> TRUE]}

\* Mutant: the exit status looks at appErr alone.
ExitStatusIgnoringPanic(err, unexpected) == IF err # NoErr THEN 1 ELSE 0

\* main.go:43-45: the status the teardown exits with.
ExitStatus(err, unexpected) == IF err # NoErr \/ unexpected # NoPanic THEN 1 ELSE 0

(* ------------------------------- state -------------------------------- *)

VARIABLES
  env,            \* the process environment
  credsFile,      \* the persisted credentials file
  stateFile,      \* the persisted state file
  cfg,            \* the one Config of the process
  logger,         \* the process-wide logrus logger
  colorNoColor,   \* color.NoColor
  stateLoads,     \* calls of loadState so far
  lastLevel,      \* the level string of the latest ConfigureLogger call
  configFile,     \* the config file the command loaded, if any
  credsLoads,     \* calls of loadCredentials so far
  flags,          \* the parsed command line
  pc,             \* where main is
  appErr,         \* main's appErr
  startupErr,     \* what the LoadFromEnv of main.go:29 returned
  panicking,      \* the value of the panic unwinding main, if any
  unexpectedErr,  \* the teardown's unexpectedErr
  ran,            \* the command hooks that have run
  outcome,        \* how rootCmd.Execute ended: "nil", "error" or "panic"
  chk,            \* where the update checker goroutine is
  updateInfo,     \* the goroutine's updateInfo
  checkFailed,    \* whether CheckForUpdate returned an error
  chanClosed,     \* updateMessageChan is closed
  sends,          \* completed sends on updateMessageChan
  recvs,          \* completed receives from updateMessageChan
  output,         \* what the process has printed, in order
  reports,        \* the event reports sent, in order
  teardowns,      \* runs of the deferred teardown
  exitCode        \* the exit status, -1 while the process runs

inputVars == <<env, credsFile>>
worldVars == <<stateFile, cfg, logger, stateLoads, credsLoads, lastLevel>>
flagVars == <<colorNoColor, flags>>
cmdVars == <<appErr, panicking, ran, outcome>>
checkerVars == <<chk, updateInfo, checkFailed, chanClosed, sends>>
teardownVars == <<unexpectedErr, recvs, reports, teardowns>>

vars == <<inputVars, worldVars, flagVars, cmdVars, checkerVars, teardownVars,
          pc, startupErr, configFile, output, exitCode>>

TheWorld == World(cfg, logger, stateFile, stateLoads, credsLoads, lastLevel)

SetWorld(w) ==
  /\ cfg' = w.cfg
  /\ logger' = w.logger
  /\ stateFile' = w.stateFile
  /\ stateLoads' = w.stateLoads
  /\ credsLoads' = w.credsLoads
  /\ lastLevel' = w.lastLevel

\* main.go:25-28: the process at entry, cfg := config.DefaultConfig().
Init ==
  /\ env \in Environments
  /\ credsFile \in {Absent, Corrupt}
  /\ stateFile \in {Absent, Corrupt, "install-0"}
  /\ cfg = DefaultConfig
  /\ logger = InitLogger
  /\ colorNoColor = FALSE
  /\ stateLoads = 0
  /\ credsLoads = 0
  /\ lastLevel = NoLevel
  /\ configFile = NoConfigFile
  /\ flags = NoFlags
  /\ pc = "LoadFromEnv"
  /\ appErr = NoErr
  /\ startupErr = NoErr
  /\ panicking = NoPanic
  /\ unexpectedErr = NoPanic
  /\ ran = {}
  /\ outcome = ""
  /\ chk = "idle"
  /\ updateInfo = NoInfo
  /\ checkFailed = FALSE
  /\ chanClosed = FALSE
  /\ sends = 0
  /\ recvs = 0
  /\ output = <<>>
  /\ reports = <<>>
  /\ teardowns = 0
  /\ exitCode = -1

\* logrus.Fatal: the message, then os.Exit(1) with no deferred call run.
Fatal ==
  /\ pc' = "exited"
  /\ exitCode' = 1

(* --------------------------- the main goroutine ----------------------- *)

\* main.go:29: appErr = cfg.LoadFromEnv(); the teardown is then deferred.
MainLoadFromEnv ==
  /\ pc = "LoadFromEnv"
  /\ LET r == LoadFromEnv(TheWorld, env, credsFile)
     IN /\ SetWorld(r.w)
        /\ appErr' = r.err
        /\ startupErr' = r.err
        /\ IF r.fatal THEN Fatal ELSE pc' = "startUpdateCheck" /\ UNCHANGED exitCode
  /\ UNCHANGED <<inputVars, flagVars, panicking, ran, outcome, checkerVars, teardownVars,
                 configFile, output>>

\* main.go:48, 132-133: the goroutine is started.
startUpdateCheck ==
  /\ pc = "startUpdateCheck"
  /\ chk' = "CheckForUpdate"
  /\ pc' = "PersistentPreRunE"
  /\ UNCHANGED <<inputVars, worldVars, flagVars, cmdVars, updateInfo, checkFailed,
                 chanClosed, sends, teardownVars, startupErr, configFile, output,
                 exitCode>>

\* main.go:67-71 under rootCmd.Execute (main.go:129): the command line is
\* parsed and loadGlobalFlags applied; its error is the error Execute returns.
PersistentPreRunE ==
  /\ pc = "PersistentPreRunE"
  /\ \E fl \in CommandLines :
       LET r == loadGlobalFlags(cfg, logger, fl)
       IN /\ flags' = fl
          /\ cfg' = r.cfg
          /\ logger' = r.logger
          /\ colorNoColor' = r.color
          /\ lastLevel' = IF "log-level" \in fl.changed THEN fl.logLevel ELSE lastLevel
          /\ IF r.err # NoErr
             THEN appErr' = r.err /\ outcome' = "error" /\ pc' = "teardown"
             ELSE pc' = "RunE" /\ UNCHANGED <<appErr, outcome>>
  /\ ran' = ran \cup {"PersistentPreRunE"}
  /\ UNCHANGED <<inputVars, stateFile, stateLoads, credsLoads, panicking, checkerVars,
                 teardownVars, startupErr, configFile, output, exitCode>>

\* The command loads the config file it was given (cfg.LoadFromConfigFile,
\* config.go:72-88) and returns the error of a failed load.
RunLoadFromConfigFile ==
  /\ pc = "RunE"
  /\ ~cfg.HasConfigFile
  /\ \E f \in ConfigFiles :
       LET r == LoadFromConfigFile(TheWorld, f, env, credsFile)
       IN /\ SetWorld(r.w)
          /\ configFile' = f
          /\ IF r.fatal THEN Fatal /\ UNCHANGED <<appErr, outcome>>
             ELSE IF r.err # NoErr
             THEN /\ appErr' = r.err
                  /\ outcome' = "error"
                  /\ pc' = "teardown"
                  /\ UNCHANGED exitCode
             ELSE pc' = "RunE" /\ UNCHANGED <<appErr, outcome, exitCode>>
  /\ UNCHANGED <<inputVars, flagVars, panicking, ran, checkerVars, teardownVars,
                 startupErr, output>>

\* The body of the command (main.go:109-112) prints its output and returns
\* nil or an error to main.go:129, or panics.
Execute ==
  /\ pc = "RunE"
  /\ ran' = ran \cup {"RunE"}
  /\ output' = Append(output, "command output")
  /\ pc' = "teardown"
  /\ \/ appErr' = NoErr /\ outcome' = "nil" /\ UNCHANGED panicking
     \/ \E e \in CommandErrors : appErr' = e /\ outcome' = "error" /\ UNCHANGED panicking
     \/ \E v \in PanicValues : panicking' = v /\ outcome' = "panic" /\ UNCHANGED appErr
  /\ UNCHANGED <<inputVars, worldVars, flagVars, checkerVars, teardownVars, startupErr,
                 configFile, exitCode>>

\* handleAppErr (main.go:154-170): what it prints.
handleAppErrOutput(err) == IF ErrorText(err) # <<>> THEN <<"error">> ELSE <<>>

\* handleUnexpectedErr (main.go:172-183): what it prints.
handleUnexpectedErrOutput(v) == <<"unexpected error and stack trace">>

\* main.go:32-39: what the teardown prints before the drain.
TeardownOutput(err, p) ==
  (IF err # NoErr THEN handleAppErrOutput(err) ELSE <<>>)
    \o (IF p # NoPanic THEN handleUnexpectedErrOutput(p) ELSE <<>>)

\* Mutant: handleAppErr is called whether or not appErr is nil.
TeardownReportsUnguarded(err, p) ==
  <<AppErrMsg(err)>> \o (IF p # NoPanic THEN <<UnexpectedErrMsg(p)>> ELSE <<>>)

\* main.go:32-39: the messages the teardown hands to events.SendReport.
TeardownReports(err, p) ==
  (IF err # NoErr THEN <<AppErrMsg(err)>> ELSE <<>>)
    \o (IF p # NoPanic THEN <<UnexpectedErrMsg(p)>> ELSE <<>>)

\* events.SendReport: each report is sent, and delivered or not.
SendReports(msgs, delivered) ==
  [i \in 1..Len(msgs) |-> [msg |-> msgs[i], delivered |-> delivered]]

\* main.go:31-39: the deferred teardown up to the drain.
TeardownReport ==
  /\ pc = "teardown"
  /\ teardowns' = teardowns + 1
  /\ unexpectedErr' = panicking
  /\ panicking' = NoPanic
  /\ output' = output \o TeardownOutput(appErr, panicking)
  /\ \E d \in (IF TeardownReports(appErr, panicking) = <<>> THEN {TRUE} ELSE BOOLEAN) :
       reports' = reports \o SendReports(TeardownReports(appErr, panicking), d)
  /\ pc' = "handleUpdateMessage"
  /\ UNCHANGED <<inputVars, worldVars, flagVars, appErr, ran, outcome, checkerVars, recvs,
                 startupErr, configFile, exitCode>>

\* handleUpdateMessage (main.go:185-197): what it prints for the value received.
handleUpdateMessageOutput(info) == IF info # NoInfo THEN <<"update notice">> ELSE <<>>

\* Mutant: the command itself receives from the channel while it runs.
handleUpdateMessageInCommand ==
  /\ pc \in {"RunE", "handleUpdateMessage"}
  /\ \/ /\ chk = "send"
        /\ ~chanClosed
        /\ sends' = sends + 1
        /\ chk' = "close"
        /\ output' = output \o handleUpdateMessageOutput(updateInfo)
     \/ /\ chanClosed
        /\ pc = "handleUpdateMessage"
        /\ output' = output \o handleUpdateMessageOutput(NoInfo)
        /\ UNCHANGED <<sends, chk>>
  /\ recvs' = recvs + 1
  /\ pc' = IF pc = "RunE" THEN "RunE" ELSE "exit"
  /\ UNCHANGED <<inputVars, worldVars, flagVars, cmdVars, updateInfo, checkFailed,
                 chanClosed, unexpectedErr, reports, teardowns, startupErr, configFile,
                 exitCode>>

\* Mutant: the drain polls the channel and moves on when nothing is ready.
handleUpdateMessageNoWait ==
  /\ pc = "handleUpdateMessage"
  /\ \/ /\ chk = "send"
        /\ ~chanClosed
        /\ sends' = sends + 1
        /\ chk' = "close"
        /\ recvs' = recvs + 1
        /\ output' = output \o handleUpdateMessageOutput(updateInfo)
     \/ /\ chk # "send"
        /\ UNCHANGED <<sends, chk, recvs, output>>
  /\ pc' = "exit"
  /\ UNCHANGED <<inputVars, worldVars, flagVars, cmdVars, updateInfo, checkFailed,
                 chanClosed, unexpectedErr, reports, teardowns, startupErr, configFile,
                 exitCode>>

\* main.go:41 with main.go:138: the receive of handleUpdateMessage meets the
\* goroutine's send on the unbuffered channel (a closed channel gives nil).
handleUpdateMessage ==
  /\ pc = "handleUpdateMessage"
  /\ \/ /\ chk = "send"
        /\ ~chanClosed
        /\ sends' = sends + 1
        /\ chk' = "close"
        /\ output' = output \o handleUpdateMessageOutput(updateInfo)
     \/ /\ chanClosed
        /\ output' = output \o handleUpdateMessageOutput(NoInfo)
        /\ UNCHANGED <<sends, chk>>
  /\ recvs' = recvs + 1
  /\ pc' = "exit"
  /\ UNCHANGED <<inputVars, worldVars, flagVars, cmdVars, updateInfo, checkFailed,
                 chanClosed, unexpectedErr, reports, teardowns, startupErr, configFile,
                 exitCode>>

\* main.go:43-46: os.Exit(1), or the deferred function and main return.
TeardownExit ==
  /\ pc = "exit"
  /\ pc' = "exited"
  /\ exitCode' = ExitStatus(appErr, unexpectedErr)
  /\ UNCHANGED <<inputVars, worldVars, flagVars, cmdVars, checkerVars, teardownVars,
                 startupErr, configFile, output>>

(* ----------------------- the update checker goroutine ----------------- *)

\* Mutant: the goroutine returns on an error, sending and closing nothing.
AfterCheckReturnOnError(info, failed) == IF failed THEN "done" ELSE "send"

\* Mutant: the goroutine sends only an Info it has, and otherwise just closes.
AfterCheckCloseWithoutSend(info, failed) == IF info = NoInfo THEN "close" ELSE "send"

\* main.go:135-138: where the goroutine goes once CheckForUpdate has
\* returned; an error is only logged.
AfterCheck(info, failed) == "send"

\* main.go:134-137: update.CheckForUpdate returns.
CheckForUpdate ==
  /\ pc # "exited"
  /\ chk = "CheckForUpdate"
  /\ \E r \in CheckResults :
       /\ updateInfo' = r.info
       /\ checkFailed' = r.failed
       /\ chk' = AfterCheck(r.info, r.failed)
  /\ UNCHANGED <<inputVars, worldVars, flagVars, cmdVars, chanClosed, sends, teardownVars,
                 pc, startupErr, configFile, output, exitCode>>

\* main.go:139: close(c).
CloseChan ==
  /\ pc # "exited"
  /\ chk = "close"
  /\ chanClosed' = TRUE
  /\ chk' = "done"
  /\ UNCHANGED <<inputVars, worldVars, flagVars, cmdVars, updateInfo, checkFailed, sends,
                 teardownVars, pc, startupErr, configFile, output, exitCode>>

Main ==
  \/ MainLoadFromEnv
  \/ startUpdateCheck
  \/ PersistentPreRunE
  \/ RunLoadFromConfigFile
  \/ Execute
  \/ TeardownReport
  \/ handleUpdateMessage
  \/ TeardownExit

Checker == CheckForUpdate \/ CloseChan

Next == Main \/ Checker

Spec == Init /\ [][Next]_vars

\* The Go scheduler runs every goroutine that can run, and the command and
\* the update check are taken to return.
FairSpec == Spec /\ WF_vars(Main) /\ WF_vars(Checker)

(* ------------------------------ properties ---------------------------- *)

Range(q) == {q[i] : i \in 1..Len(q)}
Torn == pc \in {"handleUpdateMessage", "exit", "exited"}
EnvSet(v) == env[v] # Unset

\* C1 (precedence): once every layer has been applied (the startup
\* LoadFromEnv succeeded and the command body ran), each field holds the value
\* of the highest layer that supplied it: flag over environment over config
\* file over default.
C1_Precedence ==
  (startupErr = NoErr /\ "RunE" \in ran) =>
    /\ cfg.LogLevel =
         (IF "log-level" \in flags.changed THEN flags.logLevel
          ELSE IF EnvSet("INFRACOST_LOG_LEVEL") THEN env["INFRACOST_LOG_LEVEL"]
          ELSE "")
    /\ cfg.NoColor =
         (IF "no-color" \in flags.changed THEN flags.noColor
          ELSE IF EnvSet("INFRACOST_NO_COLOR") THEN env["INFRACOST_NO_COLOR"] = "true"
          ELSE FALSE)
    /\ cfg.PricingAPIEndpoint =
         (IF "pricing-api-endpoint" \in flags.changed THEN flags.pricing
          ELSE IF EnvSet("INFRACOST_PRICING_API_ENDPOINT")
               THEN env["INFRACOST_PRICING_API_ENDPOINT"]
          ELSE DefaultEndpoint)
    /\ \A i \in 1..Len(cfg.Projects) :
         cfg.Projects[i].TerraformBinary =
           (IF EnvSet("INFRACOST_TERRAFORM_BINARY") THEN env["INFRACOST_TERRAFORM_BINARY"]
            ELSE IF cfg.HasConfigFile THEN "tf-file"
            ELSE "")

\* C2 (fatal startup errors): when the LoadFromEnv of main returned an error,
\* no command hook has run and the process exits with a non-zero status.
C2_FatalStartup ==
  startupErr # NoErr =>
    /\ ran = {}
    /\ pc = "exited" => exitCode # 0

\* C3 (exit code): when the process has exited after command execution
\* ended, the exit code is 1 if the command returned an error or panicked and
\* 0 otherwise, whatever the update check and the event report did.
C3_ExitCode ==
  (pc = "exited" /\ outcome # "") =>
    exitCode = (IF outcome \in {"error", "panic"} THEN 1 ELSE 0)

C3_Witness ==
  /\ pc = "exited"
  /\ outcome = "panic"
  /\ exitCode = 1
  /\ checkFailed
  /\ \E i \in 1..Len(reports) : ~reports[i].delivered

\* C4 (drain safety): under fair scheduling the process always exits, and an
\* Info the checker produced is followed by the update notice, which is
\* printed by the time the process has exited.
C4_DrainSafety ==
  /\ <>(pc = "exited")
  /\ (updateInfo # NoInfo) ~> ("update notice" \in Range(output))
  /\ []((pc = "exited" /\ updateInfo # NoInfo) => "update notice" \in Range(output))

C4_Witness ==
  /\ pc = "exited"
  /\ outcome = "panic"
  /\ updateInfo # NoInfo
  /\ "update notice" \in Range(output)

\* C5 (update-notice ordering): the channel is received from only once
\* command execution has ended and the teardown has printed its diagnostics
\* and sent its reports, and the update notice is the last thing printed.
C5_UpdateNoticeOrdering ==
  /\ recvs > 0 =>
       /\ pc \in {"exit", "exited"}
       /\ outcome # ""
       /\ teardowns = 1
       /\ Len(reports) = (IF appErr # NoErr THEN 1 ELSE 0)
                           + (IF unexpectedErr # NoPanic THEN 1 ELSE 0)
  /\ \A i \in 1..Len(output) :
       output[i] = "update notice" => (i = Len(output) /\ recvs = 1)

C5_Witness ==
  /\ pc = "exited"
  /\ output = <<"command output", "error", "update notice">>
  /\ Len(reports) = 1

\* C6 (one-shot handoff): the teardown runs once and receives once on every
\* way out of the command, the goroutine sends one value and closes the
\* channel only after that send, and the value received is the one sent.
C6_OneShotHandoff ==
  /\ teardowns <= 1 /\ recvs <= 1 /\ sends <= 1
  /\ recvs = sends
  /\ chanClosed => sends = 1
  /\ chk = "send" => ~chanClosed
  /\ (outcome # "" /\ pc \in {"exit", "exited"}) =>
       /\ teardowns = 1 /\ recvs = 1 /\ sends = 1
       /\ ("update notice" \in Range(output)) <=> (updateInfo # NoInfo)

C6_Witness ==
  /\ pc = "exited"
  /\ outcome = "panic"
  /\ chanClosed
  /\ teardowns = 1 /\ recvs = 1 /\ sends = 1

\* C7 (labeled error reporting): when the command returned an error, the
\* teardown sends one report: the stripped label of the first labeled event
\* error of the chain if there is one, else the stripped full text; the drain
\* follows and the process exits 1.
C7_LabeledErrorReport ==
  (outcome = "error" /\ Torn) =>
    /\ Len(reports) = 1
    /\ LET labeled == {i \in 1..Len(appErr) : appErr[i].kind = "events"}
           first == CHOOSE i \in labeled : \A j \in labeled : i <= j
       IN IF labeled # {}
          THEN /\ reports[1].msg = StripColor(appErr[first].label)
               /\ reports[1].msg = <<"missing-api-key">>
          ELSE /\ reports[1].msg = StripColor(ErrorText(appErr))
               /\ Range(reports[1].msg) \cap ColorCodes = {}
    /\ pc = "exited" => (recvs = 1 /\ exitCode = 1)

C7_Witness ==
  /\ pc = "exited"
  /\ Len(appErr) = 2
  /\ appErr[1].kind = "plain"
  /\ appErr[2].kind = "events"
  /\ reports = <<[msg |-> <<"missing-api-key">>, delivered |-> TRUE]>>
  /\ recvs = 1

\* C8 (panic handling): a panic of the command is recovered by the teardown,
\* which prints the diagnostic, reports the panic value with the stack trace,
\* drains the channel and exits 1.
C8_PanicHandling ==
  (outcome = "panic" /\ Torn) =>
    /\ panicking = NoPanic
    /\ unexpectedErr \in PanicValues
    /\ "unexpected error and stack trace" \in Range(output)
    /\ \E i \in 1..Len(reports) :
         /\ unexpectedErr \in Range(reports[i].msg)
         /\ Stack \in Range(reports[i].msg)
    /\ pc = "exited" => (recvs = 1 /\ exitCode = 1)

C8_Witness ==
  /\ pc = "exited"
  /\ outcome = "panic"
  /\ startupErr = NoErr
  /\ exitCode = 1
  /\ output = <<"command output", "unexpected error and stack trace", "update notice">>

\* C9 (no report on success): with a valid configuration and a command that
\* returned nil, no event report is sent and the process exits 0.
C9_NoReportOnSuccess ==
  (startupErr = NoErr /\ outcome = "nil") =>
    /\ reports = <<>>
    /\ pc = "exited" => exitCode = 0

C9_Witness ==
  /\ pc = "exited"
  /\ startupErr = NoErr
  /\ outcome = "nil"
  /\ cfg.HasConfigFile
  /\ exitCode = 0

\* C10 (flag layer frame condition): loadGlobalFlags leaves NoColor, LogLevel
\* and PricingAPIEndpoint as they were for every flag the user did not set,
\* and leaves the logger alone unless --log-level was set.
C10_FlagFrame ==
  [][pc = "PersistentPreRunE" =>
       /\ "no-color" \notin flags'.changed => cfg'.NoColor = cfg.NoColor
       /\ "log-level" \notin flags'.changed =>
            (cfg'.LogLevel = cfg.LogLevel /\ logger' = logger)
       /\ "pricing-api-endpoint" \notin flags'.changed =>
            cfg'.PricingAPIEndpoint = cfg.PricingAPIEndpoint]_vars

C10_Witness ==
  /\ pc = "RunE"
  /\ flags.changed = {"no-color"}
  /\ cfg.NoColor
  /\ cfg.LogLevel = "debug"
  /\ logger = [out |-> "stderr", level |-> "debug"]


\* C11 (config-file layer): a load of a well-formed file leaves HasConfigFile
\* true and Projects the file's projects, one for one and in order, with
\* nothing of the earlier Projects kept (a field differs from the file's only
\* where its environment variable is set); a load of a missing or malformed
\* file returns an error and changes no Config field, does not reconfigure the
\* logger and loads neither state nor credentials.
C11_ConfigFileLayer ==
  [][configFile' # configFile =>
       IF configFile'.status = "ok"
       THEN /\ cfg'.HasConfigFile
            /\ Len(cfg'.Projects) = Len(configFile'.projects)
            /\ \A i \in 1..Len(cfg'.Projects) :
                 /\ cfg'.Projects[i].Path = configFile'.projects[i].Path
                 /\ ~EnvSet("INFRACOST_TERRAFORM_BINARY") =>
                      cfg'.Projects[i].TerraformBinary =
                        configFile'.projects[i].TerraformBinary
                 /\ ~EnvSet("INFRACOST_TERRAFORM_WORKSPACE") =>
                      cfg'.Projects[i].TerraformWorkspace =
                        configFile'.projects[i].TerraformWorkspace
       ELSE /\ appErr' # NoErr
            /\ outcome' = "error"
            /\ cfg' = cfg
            /\ logger' = logger
            /\ lastLevel' = lastLevel
            /\ stateLoads' = stateLoads
            /\ credsLoads' = credsLoads
            /\ stateFile' = stateFile]_vars

C11_Witness ==
  /\ configFile.status = "ok"
  /\ Len(configFile.projects) = MaxProjects
  /\ cfg.HasConfigFile
  /\ Len(cfg.Projects) = MaxProjects
  /\ cfg.Projects[MaxProjects].Path = DirNames[MaxProjects]

\* C12 (per-project environment binding): once LoadFromEnv has succeeded, at
\* startup and again inside LoadFromConfigFile, every project holds the value
\* of each per-project variable the environment sets, over what the file
\* gave, and a field whose variable is not set holds what it held before: the
\* file's value, or the placeholder's empty one.
C12_ProjectEnvBinding ==
  (startupErr = NoErr /\ chk # "idle") =>
    \A i \in 1..Len(cfg.Projects) :
      LET before == IF cfg.HasConfigFile THEN configFile.projects[i] ELSE EmptyProject
      IN /\ cfg.Projects[i].TerraformBinary =
              (IF EnvSet("INFRACOST_TERRAFORM_BINARY")
               THEN env["INFRACOST_TERRAFORM_BINARY"] ELSE before.TerraformBinary)
         /\ cfg.Projects[i].TerraformWorkspace =
              (IF EnvSet("INFRACOST_TERRAFORM_WORKSPACE")
               THEN env["INFRACOST_TERRAFORM_WORKSPACE"] ELSE before.TerraformWorkspace)
         /\ cfg.Projects[i].Path = before.Path

C12_Witness ==
  /\ startupErr = NoErr
  /\ cfg.HasConfigFile
  /\ Len(cfg.Projects) = MaxProjects
  /\ EnvSet("INFRACOST_TERRAFORM_BINARY")
  /\ cfg.Projects[MaxProjects].TerraformBinary = env["INFRACOST_TERRAFORM_BINARY"]
  /\ configFile.projects[MaxProjects].TerraformBinary # env["INFRACOST_TERRAFORM_BINARY"]

\* C13 as stated (logger reconfiguration): after any calls of ConfigureLogger
\* the sink and the level are what a lone call with the last level string
\* gives, nothing of earlier calls being kept.
C13_LastCallAlone ==
  lastLevel # NoLevel =>
    logger = [out |-> IF lastLevel = "" THEN "discard" ELSE "stderr",
              level |-> IF lastLevel \in LevelNames THEN ParseLevel(lastLevel)
                        ELSE InitLogger.level]

\* C13 amended: the sink is fixed by the last level string alone, discarding
\* for the empty string and the diagnostic stream otherwise, and a known
\* level name fixes the level; an empty or unknown string leaves the level
\* of the earlier calls in place.
C13_SinkAndKnownLevel ==
  lastLevel # NoLevel =>
    /\ logger.out = (IF lastLevel = "" THEN "discard" ELSE "stderr")
    /\ lastLevel \in LevelNames => logger.level = ParseLevel(lastLevel)

C13_Witness ==
  /\ lastLevel = ""
  /\ env["INFRACOST_LOG_LEVEL"] = "debug"
  /\ "log-level" \in flags.changed
  /\ logger = [out |-> "discard", level |-> "debug"]

\* C14 (state loaded once): in a process whose startup succeeded the
\* persisted state has been loaded exactly once, whether or not the command
\* loaded a config file.
C14_StateLoadedOnce ==
  (startupErr = NoErr /\ pc # "LoadFromEnv") => stateLoads = 1

\* C15 (reader/writer separation): no step writes Config while the goroutine
\* is inside CheckForUpdate, which reads it.
C15_ReaderWriterSeparation ==
  [][chk = "CheckForUpdate" => cfg' = cfg]_vars

\* C16 as stated (drain waits for close): once the teardown is past the
\* drain the channel has been closed and the goroutine has finished.
C16_DrainWaitsForClose ==
  (teardowns = 1 /\ pc \in {"exit", "exited"}) => (chanClosed /\ chk = "done")

\* C16 amended: once the teardown is past the drain the goroutine's one send
\* has met the drain's receive, so the goroutine has nothing left to do but
\* close the channel; the channel may still be open when the process exits.
C16_DrainWaitsForSend ==
  (teardowns = 1 /\ pc \in {"exit", "exited"}) =>
    (sends = 1 /\ recvs = 1 /\ chk \in {"close", "done"})

C16_Witness ==
  /\ teardowns = 1
  /\ pc = "exited"
  /\ sends = 1
  /\ chk = "close"
  /\ ~chanClosed

\* C17 (derived endpoint flag): once the body of the command has run,
\* IsDefaultPricingAPIEndpoint is true exactly when PricingAPIEndpoint equals
\* DefaultPricingAPIEndpoint.
C17_DerivedEndpointFlag ==
  "RunE" \in ran =>
    (cfg.IsDefaultPricingAPIEndpoint <=>
       (cfg.PricingAPIEndpoint = cfg.DefaultPricingAPIEndpoint))

\* C18 (update checker start): the goroutine is started only after the
\* startup LoadFromEnv has completed, with State and credentials loaded and
\* the install id set, and before any hook or body of a command runs.
C18_CheckerStart ==
  /\ chk # "idle" =>
       /\ startupErr = NoErr
       /\ stateLoads >= 1
       /\ credsLoads >= 1
       /\ cfg.State # ""
       /\ cfg.InstallID # ""
  /\ chk = "idle" => ran = {}

\* C19 (one report): a process sends at most one event report, never one for
\* a returned or startup error and one for a panic.
C19_AtMostOneReport == Len(reports) <= 1

\* C20 (install id stability): after every successful LoadFromEnv
\* Environment.InstallID is State.InstallID, the identifier the state file
\* holds, and an install id once set never changes, also when LoadFromEnv
\* runs again inside LoadFromConfigFile.
C20_InstallIDStable ==
  /\ []((startupErr = NoErr /\ chk # "idle") =>
          /\ cfg.InstallID # ""
          /\ cfg.InstallID = cfg.State
          /\ cfg.InstallID = stateFile)
  /\ [][cfg.InstallID # "" => cfg'.InstallID = cfg.InstallID]_vars

C20_Witness ==
  /\ stateLoads = 2
  /\ cfg.HasConfigFile
  /\ cfg.InstallID = NewInstallID(1)
  /\ cfg.State = NewInstallID(1)

====
